---- MODULE Spec2Model ----
(***************************************************************************)
(* Model of for_sancho/main.py: explain_request(url, params, headers)      *)
(* issues one GET through the `requests` client and narrates the request   *)
(* and the response to the log.  The log is modelled as the sequence of    *)
(* records appended by the current call; every record is [k |-> kind,      *)
(* v |-> value].  The control flow of the try/except statement is explicit:*)
(* pc is the statement about to run, exc the exception being propagated.   *)
(***************************************************************************)
EXTENDS Integers, Sequences, FiniteSets, TLC

VARIABLES pc, url, params, headers, response, bound, content_type,
          log, exc, escaped, jsonAttempts

vars == <<pc, url, params, headers, response, bound, content_type,
          log, exc, escaped, jsonAttempts>>

----------------------------------------------------------------------------
(* Bounds of the model *)

MaxHistory == 2
MaxBodyLen == 501

(* response.text[:500] *)
ExcerptLen == 500

----------------------------------------------------------------------------
(* Values *)

None == [some |-> FALSE, val |-> <<>>]
Some(x) == [some |-> TRUE, val |-> x]

(* Python truthiness of an optional mapping: None and {} are falsy *)
Truthy(o) == o.some /\ o.val # <<>>

L(k, v) == [k |-> k, v |-> v]

Min(a, b) == IF a < b THEN a ELSE b

(* s[:n] *)
Slice(s, n) == SubSeq(s, 1, Min(n, Len(s)))

(* the gate written as an equality test instead of a substring test *)
Contains_Equals(s, needle) == s = needle

(* needle in s, for strings as sequences of tokens *)
Contains(s, needle) ==
    \E i \in 1..(Len(s) - Len(needle) + 1) :
        SubSeq(s, i, i + Len(needle) - 1) = needle

JsonType == <<"application/", "json">>
NotSpecified == <<"not specified">>

(* response.headers.get('Content-Type', 'not specified') *)
HeaderGet(h, default) == IF h.some THEN h.val ELSE default

----------------------------------------------------------------------------
(* Inputs of a call and outcomes of the HTTP client *)

U1 == <<"https://dog.ceo/api/breeds/image/random">>
U2 == <<"https://www.google.com/search">>
Urls == {U1, U2}

ParamSet == {None, Some(<<<<"q", "python">>>>)}
HeaderSet == {None, Some(<<<<"User-Agent", "Mozilla/5.0">>>>)}

Statuses == {100, 200, 204, 301, 400, 404, 499, 500, 600}

HistEntries == {[status_code |-> 301, url |-> U1],
                [status_code |-> 302, url |-> U2]}

RECURSIVE SeqsUpTo(_, _)
SeqsUpTo(S, n) ==
    IF n = 0 THEN {<<>>}
    ELSE LET shorter == SeqsUpTo(S, n - 1)
         IN  shorter \cup {Append(s, x) : s \in shorter, x \in S}

Histories == SeqsUpTo(HistEntries, MaxHistory)

(* where a followed redirect chain may end *)
RedirectTargets == {U1}

ContentTypes == {None,
                 Some(<<"application/", "json">>),
                 Some(<<"application/", "json", "; charset=utf-8">>),
                 Some(<<"text/", "html">>)}

Chars == <<"a", "b", "c">>
MkBody(n) == [i \in 1..n |-> Chars[(i % 3) + 1]]
Bodies == {MkBody(n) : n \in {2, MaxBodyLen}}

(* the URL the client requests: params are encoded into the query string *)
RECURSIVE EncodeParams(_)
EncodeParams(ps) ==
    IF ps = <<>> THEN <<>>
    ELSE <<ps[1][1], "=", ps[1][2]>>
         \o (IF Len(ps) > 1 THEN <<"&">> ELSE <<>>)
         \o EncodeParams(Tail(ps))

PreparedUrl(u, p) == IF Truthy(p) THEN u \o <<"?">> \o EncodeParams(p.val) ELSE u

NoResponse == [status_code |-> 0, url |-> <<>>, history |-> <<>>,
               content_type |-> None, text |-> <<>>]

(* exception classes and their base classes (the class itself included) *)
Ancestors(cls) ==
    CASE cls = "HTTPError" ->
            {"HTTPError", "RequestException", "OSError", "Exception"}
      [] cls = "ConnectionError" ->
            {"ConnectionError", "RequestException", "OSError", "Exception"}
      [] cls = "MissingSchema" ->
            {"MissingSchema", "RequestException", "ValueError", "OSError", "Exception"}
      [] cls = "JSONDecodeError" ->
            {"JSONDecodeError", "InvalidJSONError", "RequestException",
             "ValueError", "OSError", "Exception"}
      [] cls = "UnboundLocalError" ->
            {"UnboundLocalError", "NameError", "Exception"}
      [] cls = "RuntimeError" -> {"RuntimeError", "Exception"}
      [] OTHER -> {cls}

IsInstance(cls, base) == base \in Ancestors(cls)

(* failures requests.get can end with; HTTPError is raised only on demand *)
TransportFailures == {"ConnectionError", "MissingSchema"}
UnexpectedFailure == "RuntimeError"

(* a check that raises for server errors only *)
RaisesForStatus_ServerOnly(s) == 500 <= s /\ s < 600

(* response.raise_for_status(): raises for 4xx and 5xx statuses *)
RaisesForStatus(s) == 400 <= s /\ s < 600

----------------------------------------------------------------------------
(* The narration *)

Sep == L("sep", <<>>)

RequestLines(u, p, h) ==
    <<Sep, L("begin", <<>>), Sep, L("sending", u)>>
    \o (IF Truthy(h) THEN <<L("req_headers", h.val)>> ELSE <<>>)
    \o (IF Truthy(p)
        THEN <<L("req_params", p.val), L("note_params", 1),
               L("note_params", 2), L("note_params", 3)>>
        ELSE <<>>)

(* the chain with the redirect band tested first and closed at 400 *)
AdvisoryLines_RedirectFirst(s) ==
    IF 300 <= s /\ s <= 400 THEN <<L("advisory", "Redirect")>>
    ELSE IF s = 200 THEN <<L("advisory", "OK")>>
    ELSE IF s = 404 THEN <<L("advisory", "Not Found")>>
    ELSE IF s >= 500 THEN <<L("advisory", "Server Error")>>
    ELSE <<>>

AdvisoryLines(s) ==
    IF s = 200 THEN <<L("advisory", "OK")>>
    ELSE IF s = 400 THEN <<L("advisory", "Bad Request"), L("advisory_note", "params")>>
    ELSE IF s = 404 THEN <<L("advisory", "Not Found")>>
    ELSE IF 300 <= s /\ s < 400 THEN <<L("advisory", "Redirect")>>
    ELSE IF s >= 500 THEN <<L("advisory", "Server Error")>>
    ELSE <<>>

(* enumerate(response.history) without the start index 1 *)
HistoryLines_ZeroBased(h) ==
    IF h # <<>>
    THEN <<L("redirect_count", Len(h))>>
         \o [i \in 1..Len(h) |->
                L("redirect_entry", <<i - 1, h[i].status_code, h[i].url>>)]
    ELSE <<L("no_redirect", <<>>)>>

HistoryLines(h) ==
    IF h # <<>>
    THEN <<L("redirect_count", Len(h))>>
         \o [i \in 1..Len(h) |->
                L("redirect_entry", <<i, h[i].status_code, h[i].url>>)]
    ELSE <<L("no_redirect", <<>>)>>

(* statements 98-102, each followed by the next *)
ExtraPcs == <<"elapsed", "encoding", "cookies", "is_redirect", "is_permanent_redirect">>
ExtraIndex(p) == CHOOSE i \in 1..Len(ExtraPcs) : ExtraPcs[i] = p
AfterExtra(p) ==
    IF ExtraIndex(p) < Len(ExtraPcs) THEN ExtraPcs[ExtraIndex(p) + 1]
    ELSE "raise_for_status"

TryBodyPcs == {"status", "advisory", "url", "history", "headers", "content_type",
               "gate", "json", "text", "raise_for_status"}
              \cup {ExtraPcs[i] : i \in 1..Len(ExtraPcs)}

(* the outer try without its last clause *)
Handlers_NoCatchAll == <<"HTTPError", "RequestException">>

(* the outer try without its RequestException clause *)
Handlers_NoTransportTier == <<"HTTPError", "Exception">>

(* the outer try with the general client clause ahead of the HTTPError clause *)
Handlers_TransportFirst == <<"RequestException", "HTTPError", "Exception">>

(* the except clauses of the outer try, in order *)
Handlers == <<"HTTPError", "RequestException", "Exception">>

(* the first except clause that matches, "None" when none does *)
Tier(cls) ==
    IF \E i \in 1..Len(Handlers) : IsInstance(cls, Handlers[i])
    THEN Handlers[CHOOSE i \in 1..Len(Handlers) :
                    /\ IsInstance(cls, Handlers[i])
                    /\ \A j \in 1..(i - 1) : ~IsInstance(cls, Handlers[j])]
    ELSE "None"

(* an inner clause that does not cover the decode error *)
JsonHandler_TypeError == "TypeError"

(* the except clause of the inner try around response.json() *)
JsonHandler == "ValueError"

----------------------------------------------------------------------------
Init ==
    /\ pc = "idle"
    /\ url = <<>>
    /\ params = None
    /\ headers = None
    /\ response = NoResponse
    /\ bound = FALSE
    /\ content_type = <<>>
    /\ log = <<>>
    /\ exc = "None"
    /\ escaped = FALSE
    /\ jsonAttempts = 0

Raise(cls) ==
    /\ pc' = "except"
    /\ exc' = cls

(* lines 14-37: the call starts; header and the request description *)
Call(u, p, h) ==
    /\ pc \in {"idle", "done"}
    /\ url' = u /\ params' = p /\ headers' = h
    /\ response' = NoResponse /\ bound' = FALSE /\ content_type' = <<>>
    /\ exc' = "None" /\ escaped' = FALSE /\ jsonAttempts' = 0
    /\ log' = RequestLines(u, p, h)
    /\ pc' = "try"

(* line 41 *)
Executing ==
    /\ pc = "try"
    /\ log' = Append(log, L("executing", <<>>))
    /\ pc' = "get"
    /\ UNCHANGED <<url, params, headers, response, bound, content_type,
                   exc, escaped, jsonAttempts>>

(* lines 42-46: the GET returns a response *)
GetResponse(s, h, ct, b, fu) ==
    /\ pc = "get"
    /\ response' = [status_code |-> s,
                    url |-> IF h = <<>> THEN PreparedUrl(url, params) ELSE fu,
                    history |-> h, content_type |-> ct, text |-> b]
    /\ bound' = TRUE
    /\ log' = log \o <<Sep, L("received", <<>>), Sep>>
    /\ pc' = "status"
    /\ UNCHANGED <<url, params, headers, content_type, exc, escaped, jsonAttempts>>

(* line 42: the GET raises *)
GetRaises(cls) ==
    /\ pc = "get"
    /\ Raise(cls)
    /\ UNCHANGED <<url, params, headers, response, bound, content_type,
                   log, escaped, jsonAttempts>>

(* line 49 *)
StatusCode ==
    /\ pc = "status"
    /\ log' = Append(log, L("status", response.status_code))
    /\ pc' = "advisory"
    /\ UNCHANGED <<url, params, headers, response, bound, content_type,
                   exc, escaped, jsonAttempts>>

(* lines 52-62 *)
Advisory ==
    /\ pc = "advisory"
    /\ log' = log \o AdvisoryLines(response.status_code)
    /\ pc' = "url"
    /\ UNCHANGED <<url, params, headers, response, bound, content_type,
                   exc, escaped, jsonAttempts>>

(* lines 65-67 *)
FinalUrl ==
    /\ pc = "url"
    /\ log' = Append(log, L("final_url", response.url))
              \o (IF response.url # url THEN <<L("url_changed", <<>>)>> ELSE <<>>)
    /\ pc' = "history"
    /\ UNCHANGED <<url, params, headers, response, bound, content_type,
                   exc, escaped, jsonAttempts>>

(* lines 70-75 *)
History ==
    /\ pc = "history"
    /\ log' = log \o HistoryLines(response.history)
    /\ pc' = "headers"
    /\ UNCHANGED <<url, params, headers, response, bound, content_type,
                   exc, escaped, jsonAttempts>>

(* line 78 *)
ResponseHeaders ==
    /\ pc = "headers"
    /\ log' = Append(log, L("resp_headers", response.content_type))
    /\ pc' = "content_type"
    /\ UNCHANGED <<url, params, headers, response, bound, content_type,
                   exc, escaped, jsonAttempts>>

(* lines 81-82 *)
ContentType ==
    /\ pc = "content_type"
    /\ content_type' = HeaderGet(response.content_type, NotSpecified)
    /\ log' = Append(log, L("content_type", content_type'))
    /\ pc' = "gate"
    /\ UNCHANGED <<url, params, headers, response, bound, exc, escaped, jsonAttempts>>

(* lines 85-86 and 92-94 *)
Gate ==
    /\ pc = "gate"
    /\ IF Contains(content_type, JsonType)
       THEN /\ log' = Append(log, L("json_note", <<>>))
            /\ pc' = "json"
       ELSE /\ log' = log \o <<L("text_note", 1), L("text_note", 2)>>
            /\ pc' = "text"
    /\ UNCHANGED <<url, params, headers, response, bound, content_type,
                   exc, escaped, jsonAttempts>>

(* lines 87-89: response.json() returns the parsed structure *)
JsonParsed ==
    /\ pc = "json"
    /\ jsonAttempts' = jsonAttempts + 1
    /\ log' = Append(log, L("json_data", "parsed"))
    /\ pc' = "elapsed"
    /\ UNCHANGED <<url, params, headers, response, bound, content_type, exc, escaped>>

(* lines 87-91: response.json() raises its decode error *)
JsonFails ==
    /\ pc = "json"
    /\ jsonAttempts' = jsonAttempts + 1
    /\ IF IsInstance("JSONDecodeError", JsonHandler)
       THEN /\ log' = Append(log, L("parse_error", "JSONDecodeError"))
            /\ pc' = "elapsed"
            /\ exc' = exc
       ELSE /\ Raise("JSONDecodeError")
            /\ log' = log
    /\ UNCHANGED <<url, params, headers, response, bound, content_type, escaped>>

(* line 95 *)
Text ==
    /\ pc = "text"
    /\ log' = Append(log, L("text_excerpt", Slice(response.text, ExcerptLen)))
    /\ pc' = "elapsed"
    /\ UNCHANGED <<url, params, headers, response, bound, content_type,
                   exc, escaped, jsonAttempts>>

(* lines 98-102 *)
ExtraInfo ==
    /\ \E i \in 1..Len(ExtraPcs) : pc = ExtraPcs[i]
    /\ log' = Append(log, L(pc, <<>>))
    /\ pc' = AfterExtra(pc)
    /\ UNCHANGED <<url, params, headers, response, bound, content_type,
                   exc, escaped, jsonAttempts>>

(* lines 105-106 *)
RaiseForStatus ==
    /\ pc = "raise_for_status"
    /\ IF RaisesForStatus(response.status_code)
       THEN /\ Raise("HTTPError")
            /\ log' = log
       ELSE /\ log' = Append(log, L("success", <<>>))
            /\ pc' = "footer"
            /\ exc' = exc
    /\ UNCHANGED <<url, params, headers, response, bound, content_type,
                   escaped, jsonAttempts>>

(* lines 48-105: a statement of the try body fails unexpectedly *)
Fail ==
    /\ pc \in TryBodyPcs
    /\ Raise(UnexpectedFailure)
    /\ UNCHANGED <<url, params, headers, response, bound, content_type,
                   log, escaped, jsonAttempts>>

(* lines 108-115: the first matching except clause runs *)
Except ==
    /\ pc = "except"
    /\ LET t == Tier(exc) IN
       CASE t = "HTTPError" ->
              IF bound
              THEN /\ log' = log \o <<L("http_error", exc),
                                      L("error_status", response.status_code),
                                      L("error_body", Slice(response.text, ExcerptLen))>>
                   /\ pc' = "footer"
                   /\ UNCHANGED <<exc, escaped>>
              ELSE (* response is unbound: line 110 raises inside the handler *)
                   /\ log' = Append(log, L("http_error", exc))
                   /\ exc' = "UnboundLocalError"
                   /\ escaped' = TRUE
                   /\ pc' = "raised"
         [] t = "RequestException" ->
              /\ log' = Append(log, L("transport_error", exc))
              /\ pc' = "footer"
              /\ UNCHANGED <<exc, escaped>>
         [] t = "Exception" ->
              /\ log' = Append(log, L("unexpected_error", exc))
              /\ pc' = "footer"
              /\ UNCHANGED <<exc, escaped>>
         [] OTHER ->
              /\ escaped' = TRUE
              /\ pc' = "raised"
              /\ UNCHANGED <<log, exc>>
    /\ UNCHANGED <<url, params, headers, response, bound, content_type, jsonAttempts>>

(* the footer written inside the try body: skipped when an exception was raised *)
Footer_InsideTry ==
    /\ pc = "footer"
    /\ log' = IF exc = "None" THEN log \o <<Sep, L("end", <<>>), Sep>> ELSE log
    /\ pc' = "done"
    /\ UNCHANGED <<url, params, headers, response, bound, content_type,
                   exc, escaped, jsonAttempts>>

(* lines 117-119 *)
Footer ==
    /\ pc = "footer"
    /\ log' = log \o <<Sep, L("end", <<>>), Sep>>
    /\ pc' = "done"
    /\ UNCHANGED <<url, params, headers, response, bound, content_type,
                   exc, escaped, jsonAttempts>>

Next ==
    \/ \E u \in Urls, p \in ParamSet, h \in HeaderSet : Call(u, p, h)
    \/ Executing
    \/ \E s \in Statuses, h \in Histories, ct \in ContentTypes, b \in Bodies,
          fu \in RedirectTargets : GetResponse(s, h, ct, b, fu)
    \/ \E cls \in TransportFailures \cup {UnexpectedFailure} : GetRaises(cls)
    \/ StatusCode
    \/ Advisory
    \/ FinalUrl
    \/ History
    \/ ResponseHeaders
    \/ ContentType
    \/ Gate
    \/ JsonParsed
    \/ JsonFails
    \/ Text
    \/ ExtraInfo
    \/ RaiseForStatus
    \/ Fail
    \/ Except
    \/ Footer

Spec == Init /\ [][Next]_vars

TypeOK ==
    /\ pc \in {"idle", "try", "get", "except", "footer", "done", "raised"} \cup TryBodyPcs
    /\ escaped \in BOOLEAN
    /\ bound \in BOOLEAN
    /\ jsonAttempts \in 0..1

----------------------------------------------------------------------------
(* Reading the log of the current call *)

Kinds(k) == {i \in DOMAIN log : log[i].k = k}
Has(k) == Kinds(k) # {}
Count(k) == Cardinality(Kinds(k))

IsPrefix(p, s) == Len(p) <= Len(s) /\ \A i \in 1..Len(p) : p[i] = s[i]

(* the call is over, whichever way it ended *)
Ended == pc \in {"done", "raised"}

(* the response declares a JSON body *)
DeclaredJson ==
    /\ response.content_type.some
    /\ response.content_type.val \in {<<"application/", "json">>,
                                      <<"application/", "json", "; charset=utf-8">>}

(* the statements after the content-type gate *)
PostGate == {"elapsed", "encoding", "cookies", "is_redirect",
             "is_permanent_redirect", "raise_for_status"}

----------------------------------------------------------------------------
(* C1: explain_request never raises to its caller: whatever the HTTP client *)
(* does (transport failure, any status code, a body that fails JSON         *)
(* parsing, an unexpected failure at any statement of the try body), no     *)
(* exception escapes, not even from inside an except clause, and the call   *)
(* returns normally.                                                        *)
C1_NeverRaises ==
    /\ ~escaped
    /\ pc # "raised"
    /\ (pc = "except" => Tier(exc) # "None")
    /\ (pc = "except" /\ Tier(exc) = "HTTPError" => bound)

C1_Witness ==
    /\ pc = "done"
    /\ exc = "RuntimeError"
    /\ bound
    /\ Has("json_note")

(* C2: every call logs the 'end request' footer exactly once, as the last   *)
(* records of the call, on every path; nothing is appended after it and the *)
(* 'begin request' header opens the log of the call.                        *)
C2_FooterOnceAndLast ==
    /\ Count("end") <= 1
    /\ (Ended => Count("end") = 1)
    /\ \A i \in Kinds("end") :
          /\ pc = "done"
          /\ i = Len(log) - 1
          /\ log[i - 1] = Sep
          /\ log[i + 1] = Sep
    /\ (pc # "idle" =>
          /\ Len(log) >= 3
          /\ log[1] = Sep /\ log[2].k = "begin" /\ log[3] = Sep
          /\ Count("begin") = 1)

C2_Witness ==
    /\ pc = "done"
    /\ Has("http_error")
    /\ log[Len(log) - 1].k = "end"

(* the narration reached the raise-if-HTTP-error check of a received response *)
ReachedCheck == pc = "done" /\ bound /\ ~Has("unexpected_error")

HttpErrorNarrated ==
    /\ exc = "HTTPError"
    /\ Count("http_error") = 1
    /\ \E i \in Kinds("error_status") : log[i].v = response.status_code
    /\ \E i \in Kinds("error_body") :
          Len(log[i].v) <= 500 /\ IsPrefix(log[i].v, response.text)
    /\ ~Has("success")

(* C3: for every status code >= 400 of a completed round trip the           *)
(* raise-if-HTTP-error check raises, the log holds the 'HTTP error' line,   *)
(* the status line of the error tier and a body excerpt of at most 500      *)
(* characters, the success line is not logged and the call returns.         *)
C3_AllStatusesFrom400 ==
    ReachedCheck /\ response.status_code >= 400 => HttpErrorNarrated

(* C3 as amended: the same for the status codes from 400 to 599; a code of  *)
(* 600 or more does not make the check raise.                               *)
C3_Status4xx5xx ==
    /\ (ReachedCheck /\ response.status_code >= 400 /\ response.status_code < 600
          => HttpErrorNarrated)
    /\ (ReachedCheck /\ response.status_code >= 600
          => Has("success") /\ ~Has("http_error"))

C3_Witness ==
    /\ pc = "done"
    /\ response.status_code = 404
    /\ Has("http_error")
    /\ Len(response.text) > 500
    /\ \E i \in Kinds("error_body") : Len(log[i].v) = 500

(* C4: when the GET raises a transport-level failure, the log of the call   *)
(* holds the transport-error line and no status line, no body excerpt, no   *)
(* 'response received' section and no success line: the error message is   *)
(* the only record between the 'executing' line and the footer.             *)
C4_TransportErrorOnly ==
    (~bound /\ exc \in {"ConnectionError", "MissingSchema"} /\ pc \in {"footer", "done"})
    => /\ Count("transport_error") = 1
       /\ \A k \in {"status", "error_status", "text_excerpt", "error_body",
                    "received", "success", "json_data", "http_error",
                    "unexpected_error"} : ~Has(k)
       /\ \A i \in Kinds("transport_error") :
             /\ log[i].v = exc
             /\ log[i - 1].k = "executing"
             /\ (pc = "done" => i = Len(log) - 3)
             /\ (pc = "footer" => i = Len(log))

C4_Witness ==
    /\ pc = "done"
    /\ ~bound
    /\ exc = "ConnectionError"
    /\ Has("transport_error")

(* C5: content-type gate: response.json() is called only when the           *)
(* content-type (or the placeholder when it is absent) contains             *)
(* 'application/json', and once the gate is passed it was called exactly in *)
(* that case, with no plain-text excerpt; otherwise the excerpt is logged.  *)
(* Every body excerpt in the log is a prefix of the body of at most 500     *)
(* characters.                                                              *)
C5_ContentTypeGate ==
    /\ jsonAttempts <= 1
    /\ (jsonAttempts = 1 => DeclaredJson)
    /\ (Has("json_data") \/ Has("parse_error") \/ Has("json_note") => DeclaredJson)
    /\ (Has("text_excerpt") \/ Has("text_note") => ~DeclaredJson /\ jsonAttempts = 0)
    /\ (pc \in PostGate =>
          /\ jsonAttempts = 1 <=> DeclaredJson
          /\ Count("text_excerpt") = 1 <=> ~DeclaredJson)
    /\ \A i \in Kinds("text_excerpt") \cup Kinds("error_body") :
          Len(log[i].v) <= 500 /\ IsPrefix(log[i].v, response.text)
    /\ \A i \in Kinds("content_type") :
          log[i].v = IF response.content_type.some THEN response.content_type.val
                     ELSE <<"not specified">>

C5_Witness ==
    /\ pc = "done"
    /\ ~response.content_type.some
    /\ Len(response.text) > 500
    /\ \E i \in Kinds("text_excerpt") : Len(log[i].v) = 500
    /\ jsonAttempts = 0

(* the advisory the classification selects for a status code *)
C6_Expected(s) ==
    CASE s = 200 -> <<L("advisory", "OK")>>
      [] s = 400 -> <<L("advisory", "Bad Request"), L("advisory_note", "params")>>
      [] s = 404 -> <<L("advisory", "Not Found")>>
      [] s \in (300..399) -> <<L("advisory", "Redirect")>>
      [] s >= 500 -> <<L("advisory", "Server Error")>>
      [] OTHER -> <<>>

(* C6: after the GET returned, the bare status code line is logged and is   *)
(* followed by the advisory of the classification: 200 OK, 400 Bad Request  *)
(* and its note, 404 Not Found, [300,400) Redirect, >= 500 Server Error,    *)
(* nothing for any other code; at most one classification applies.          *)
C6_StatusAdvisory ==
    /\ Count("status") <= 1
    /\ Count("advisory") <= 1
    /\ (ReachedCheck => Count("status") = 1)
    /\ \A i \in Kinds("status") :
          /\ log[i].v = response.status_code
          /\ log[i - 1] = Sep /\ log[i - 2].k = "received"
          /\ (Has("final_url") =>
                LET e == C6_Expected(response.status_code) IN
                /\ SubSeq(log, i + 1, i + Len(e)) = e
                /\ log[i + Len(e) + 1].k = "final_url")

C6_Witness ==
    /\ pc = "done"
    /\ response.status_code = 400
    /\ Has("advisory_note")
    /\ \E i \in Kinds("advisory") : log[i].v = "Bad Request"

(* C7: with a redirect history of n >= 1 responses the log reports the      *)
(* count n and then exactly n entries, the k-th with position k (from 1),   *)
(* status code and URL of the k-th response, and no 'no redirect' line;     *)
(* with an empty history only the 'no redirect' line is logged.             *)
C7_RedirectReport ==
    LET h == response.history IN
    /\ (ReachedCheck => Has("redirect_count") \/ Has("no_redirect"))
    /\ (Has("redirect_count") \/ Has("redirect_entry") \/ Has("no_redirect") =>
          IF Len(h) >= 1
          THEN /\ Count("redirect_count") = 1
               /\ Count("redirect_entry") = Len(h)
               /\ ~Has("no_redirect")
               /\ \A c \in Kinds("redirect_count") :
                     /\ log[c].v = Len(h)
                     /\ \A k \in 1..Len(h) :
                           /\ log[c + k].k = "redirect_entry"
                           /\ log[c + k].v[1] = k
                           /\ log[c + k].v[2] = h[k].status_code
                           /\ log[c + k].v[3] = h[k].url
          ELSE /\ Count("no_redirect") = 1
               /\ ~Has("redirect_count")
               /\ ~Has("redirect_entry"))

C7_Witness ==
    /\ pc = "done"
    /\ Len(response.history) = 2
    /\ response.history[1] # response.history[2]
    /\ Count("redirect_entry") = 2

(* C8: a JSON parse failure is recovered locally: the parse-error line is   *)
(* logged, no outer tier fires because of it, and the elapsed, encoding,    *)
(* cookies and the two redirect-indicator lines follow in that order, then  *)
(* the raise-if-HTTP-error check (a 2xx response with an unparseable body   *)
(* still ends with the success line).                                       *)
C8_ParseFailureRecovered ==
    /\ (jsonAttempts = 1 /\ pc # "json" => Has("json_data") \/ Has("parse_error"))
    /\ (Has("parse_error") => ~Has("transport_error") /\ ~Has("json_data"))
    /\ \A i \in Kinds("parse_error") :
          /\ \A j \in 1..5 :
                (/\ i + j <= Len(log)
                 /\ \A m \in 1..(j - 1) : log[i + m].k # "unexpected_error")
                => log[i + j].k \in {ExtraPcs[j], "unexpected_error"}
          /\ (ReachedCheck =>
                /\ \A j \in 1..5 : log[i + j].k = ExtraPcs[j]
                /\ log[i + 6].k \in {"success", "http_error"}
                /\ (log[i + 6].k = "http_error" => response.status_code >= 400)
                /\ (response.status_code \in 200..299 => log[i + 6].k = "success"))

C8_Witness ==
    /\ pc = "done"
    /\ Has("parse_error")
    /\ Has("success")
    /\ response.status_code = 200

(* C9: the outcomes are exclusive and exhaustive: every call logs exactly   *)
(* one of the success line, the HTTP-error line, the transport-error line   *)
(* and the unexpected-error line, once; the HTTP tier fires only for the    *)
(* raised HTTP-error condition, the transport tier only for other client    *)
(* failures, the unexpected tier only for failures that are neither.        *)
C9_OutcomeCount ==
    Count("success") + Count("http_error") + Count("transport_error")
        + Count("unexpected_error")

C9_ExclusiveOutcomes ==
    /\ C9_OutcomeCount <= 1
    /\ (Ended => C9_OutcomeCount = 1)
    /\ (Has("success") => exc = "None")
    /\ (Has("http_error") => exc = "HTTPError" /\ bound)
    /\ (Has("transport_error") => exc \in {"ConnectionError", "MissingSchema"})
    /\ (Has("unexpected_error") => exc = "RuntimeError")

C9_Witness ==
    /\ pc = "done"
    /\ ~bound
    /\ Has("unexpected_error")

(* C10: the two redirect notes of one narration are consistent: the 'URL    *)
(* changed because of a redirect' note and the 'no redirect occurred' line  *)
(* are never both logged in one call, for any url, params and headers.      *)
C10_RedirectNotesConsistent ==
    ~(Has("url_changed") /\ Has("no_redirect"))

====
